---- MODULE Spec2Model ----
(***************************************************************************)
(* Model of run_tests.py, the parameter-sweep test harness of the quantum  *)
(* transport solver: compile_fortran_program, run_single_test,             *)
(* generate_test_report and main.                                          *)
(*                                                                         *)
(* Text is modelled as sequences of one-character strings, so that         *)
(* str.endswith, str.replace, str() and '_'.join are computed, not assumed.*)
(* A float is modelled by its value in units of 10^-5 (0.3 is 30000).      *)
(***************************************************************************)
EXTENDS Integers, Sequences, FiniteSets, TLC

(***************************************************************************)
(* Bounds of the exploration.                                              *)
(***************************************************************************)
\* longest parameter mapping explored for the argument builder
MaxParams == 2
\* longest swept list explored for the argument builder
MaxSweep == 2
\* the solver writes a subset of the first MaxProduced known output files
MaxProduced == 1
\* number of harness invocations explored by the re-run specification
MaxInvocations == 2

(***************************************************************************)
(* Text helpers.                                                           *)
(***************************************************************************)
\* str.endswith
EndsWith(s, suf) ==
    /\ Len(s) >= Len(suf)
    /\ SubSeq(s, Len(s) - Len(suf) + 1, Len(s)) = suf

\* str.replace(old, ''): every non-overlapping occurrence, left to right
RECURSIVE Replace(_, _)
Replace(s, old) ==
    IF Len(s) < Len(old) \/ Len(old) = 0 THEN s
    ELSE IF SubSeq(s, 1, Len(old)) = old
         THEN Replace(SubSeq(s, Len(old) + 1, Len(s)), old)
         ELSE <<Head(s)>> \o Replace(Tail(s), old)

DigitChar(d) == <<"0", "1", "2", "3", "4", "5", "6", "7", "8", "9">>[d + 1]

\* decimal digits of a natural number
RECURSIVE Digits(_)
Digits(n) == IF n < 10 THEN <<DigitChar(n)>>
             ELSE Digits(n \div 10) \o <<DigitChar(n % 10)>>

\* f written with exactly width digits, zeros in front
RECURSIVE Padded(_, _)
Padded(f, width) ==
    IF width = 1 THEN <<DigitChar(f % 10)>>
    ELSE Padded(f \div 10, width - 1) \o <<DigitChar(f % 10)>>

\* the width fractional digits of f without trailing zeros, one at least
RECURSIVE FracDigits(_, _)
FracDigits(f, width) ==
    IF width = 1 THEN <<DigitChar(f)>>
    ELSE IF f % 10 = 0 THEN FracDigits(f \div 10, width - 1)
         ELSE Padded(f, width)

\* str(v) of a Python float, v in units of 10^-5: repr is positional from
\* 1e-04 on and uses the exponent form below it
Str(v) ==
    IF v = 0 THEN <<"0", ".", "0">>
    ELSE IF v < 10 THEN <<DigitChar(v), "e", "-", "0", "5">>
    ELSE Digits(v \div 100000) \o <<".">> \o FracDigits(v % 100000, 5)

\* sep.join(parts)
RECURSIVE Join(_, _)
Join(sep, parts) ==
    IF parts = <<>> THEN <<>>
    ELSE IF Len(parts) = 1 THEN parts[1]
    ELSE parts[1] \o sep \o Join(sep, Tail(parts))

\* the sweep marker of run_single_test
SweepMarker == <<"_", "v", "a", "l", "u", "e", "s">>

(***************************************************************************)
(* Argument construction of run_single_test.  A parameter mapping is a     *)
(* sequence of entries [key, vals] in insertion order; a scalar holds one  *)
(* value, a swept key holds its list.                                      *)
(***************************************************************************)
Executable ==
    <<".", "/", "q", "u", "a", "n", "t", "u", "m", "_", "t", "r", "a", "n",
      "s", "p", "o", "r", "t", ".", "e", "x", "e">>

Flag(name) == <<"-", "-">> \o name

\* cmd.extend([f'--{param_name}', str(val)]) for val in value
RECURSIVE SweepArgs(_, _)
SweepArgs(name, vals) ==
    IF vals = <<>> THEN <<>>
    ELSE <<Flag(name), Str(Head(vals))>> \o SweepArgs(name, Tail(vals))

\* param_name = key.replace('_values', '')
ParamName(key) == Replace(key, SweepMarker)

\* the arguments one entry of the mapping contributes
EntryArgs(e) ==
    IF EndsWith(e.key, SweepMarker)
    THEN SweepArgs(ParamName(e.key), e.vals)
    ELSE <<Flag(e.key), Str(e.vals[1])>>

RECURSIVE ParamArgs(_)
ParamArgs(params) ==
    IF params = <<>> THEN <<>>
    ELSE EntryArgs(Head(params)) \o ParamArgs(Tail(params))

BuildCmd(params) == <<Executable>> \o ParamArgs(params)

(***************************************************************************)
(* The registry TEST_CASES, in insertion order.                            *)
(***************************************************************************)
K_em == <<"e", "m">>
K_lambda == <<"l", "a", "m", "b", "d", "a">>
K_temp == <<"t", "e", "m", "p">>
K_phi == <<"p", "h", "i">>
K_phi_values == K_phi \o SweepMarker
K_lambda_values == K_lambda \o SweepMarker

TEST_CASES ==
    << [id |-> 1, name |-> "DOS_vs_phi",
        params |-> << [key |-> K_em, vals |-> <<0>>],
                      [key |-> K_lambda, vals |-> <<30000>>],
                      [key |-> K_temp, vals |-> <<10000>>],
                      [key |-> K_phi_values,
                       vals |-> <<0, 50000, 100000, 150000, 200000, 250000,
                                  300000, 350000, 400000, 450000, 500000,
                                  550000, 600000>>] >>],
       [id |-> 2, name |-> "DOS_vs_lambda",
        params |-> << [key |-> K_em, vals |-> <<0>>],
                      [key |-> K_phi, vals |-> <<314159>>],
                      [key |-> K_temp, vals |-> <<10000>>],
                      [key |-> K_lambda_values,
                       vals |-> <<10000, 30000, 50000, 70000, 90000, 110000,
                                  130000>>] >>],
       [id |-> 3, name |-> "Conductance_components",
        params |-> << [key |-> K_em, vals |-> <<0>>],
                      [key |-> K_lambda, vals |-> <<30000>>],
                      [key |-> K_phi, vals |-> <<314159>>],
                      [key |-> K_temp, vals |-> <<10000>>] >>] >>

\* the canonical output files run_single_test looks for
output_files ==
    <<"DOS_data_origin.txt", "Current_data_origin.txt",
      "Conductance_data_origin.txt", "G_tilde_values.txt",
      "Ln_data_origin.txt", "results.txt">>

KnownFiles == {output_files[k] : k \in 1..Len(output_files)}

\* the known files the explored solver may write
Producible ==
    {output_files[k] : k \in 1..(IF MaxProduced < Len(output_files)
                                  THEN MaxProduced ELSE Len(output_files))}

\* the subsections of the report template: case number and heading
ReportSubsections ==
    << [case |-> 1, heading |-> "DOS vs flux phase phi"],
       [case |-> 2, heading |-> "DOS vs QD-MBS coupling |lambda|"],
       [case |-> 3, heading |-> "Conductance component decomposition"] >>

(***************************************************************************)
(* State.                                                                  *)
(***************************************************************************)
VARIABLES
    pc,             \* position of main: Idle, Building, Running, Solving,
                    \* Reporting, Summary, Done, Failed; Args/ArgsDone for
                    \* the argument builder taken alone
    failure,        \* why main ended in Failed: none, missing-source, build
    exitStatus,     \* exit status of the process, -1 while it runs
    sourceExists,   \* os.path.exists('main.f90')
    buildOutcome,   \* what the toolchain did: none, ok, nonzero, notfound
    toolchainCalls, \* number of gfortran invocations of this process
    invocation,     \* number of this harness process
    clock,          \* wall clock in whole seconds, as strftime shows it
    idx,            \* position of the for loop of main in TEST_CASES
    success_count,  \* success_count of main
    total_count,    \* total_count of main
    results,        \* per finished run_single_test: case, exit, fault, err,
                    \* printed, ret
    solverCalls,    \* case ids whose solver subprocess was invoked, in order
    runs,           \* number of solver executions so far (names a content)
    timestamp,      \* timestamp of the current run_single_test
    cmd,            \* argument list of the current run_single_test
    params,         \* params argument of the current run_single_test
    wd,             \* working directory: known file -> content, 0 if absent
    dirs,           \* directories that exist under test_results
    fs,             \* files archived under test_results
    logs,           \* output_<timestamp>.txt files under test_results
    report,         \* test_report.md: <<>> or <<its content>>
    tally           \* the summary main prints: <<>> or <<the record>>

vars == <<pc, failure, exitStatus, sourceExists, buildOutcome, toolchainCalls,
          invocation, clock, idx, success_count, total_count, results,
          solverCalls, runs, timestamp, cmd, params, wd, dirs, fs, logs,
          report, tally>>

(***************************************************************************)
(* Artifact collection of run_single_test.                                 *)
(***************************************************************************)
\* param_str: '_'.join of f'{k}_{v}' over the keys that are not swept
RECURSIVE ScalarParts(_)
ScalarParts(ps) ==
    IF ps = <<>> THEN <<>>
    ELSE IF EndsWith(Head(ps).key, SweepMarker) THEN ScalarParts(Tail(ps))
    ELSE <<Head(ps).key \o <<"_">> \o Str(Head(ps).vals[1])>>
         \o ScalarParts(Tail(ps))

ParamStr(ps) == Join(<<"_">>, ScalarParts(ps))

\* test_dir = f"test_results/test_case_{case_id}_{test_name}"
TestDir(case_id, test_name) == <<case_id, test_name>>

\* 'test_results' itself
ResultsRoot == <<0, "test_results">>

\* f"{file}.{timestamp}_{param_str}": the three parts determine the name and
\* the name determines them (the timestamp has a fixed width)
CompositeName(file, ts, ps) == [file |-> file, ts |-> ts, ps |-> ParamStr(ps)]

\* the file under its original name
CanonicalName(file) == [file |-> file, ts |-> -1, ps |-> <<>>]

\* a collector that keeps only the archival copy
CopiesOfCompositeOnly(file, content, ts, ps) ==
    << [name |-> CompositeName(file, ts, ps), content |-> content] >>

\* the two copies made of one present file, in the order they are made
CopiesOf(file, content, ts, ps) ==
    << [name |-> CompositeName(file, ts, ps), content |-> content],
       [name |-> CanonicalName(file), content |-> content] >>

\* os.path.exists(file)
Exists(wdir, file) == wdir[file] # 0

\* the copies the loop over output_files makes, from position k on
RECURSIVE CopyOps(_, _, _, _)
CopyOps(k, wdir, ts, ps) ==
    IF k > Len(output_files) THEN <<>>
    ELSE (IF Exists(wdir, output_files[k])
          THEN CopiesOf(output_files[k], wdir[output_files[k]], ts, ps)
          ELSE <<>>)
         \o CopyOps(k + 1, wdir, ts, ps)

\* shutil.copy2 into dir: creates the file or overwrites the one of that name
WriteFile(fsys, dir, name, content) ==
    {e \in fsys : ~(e.dir = dir /\ e.name = name)}
    \cup {[dir |-> dir, name |-> name, content |-> content]}

\* the first n copies of ops done, in order
RECURSIVE ApplyOps(_, _, _, _)
ApplyOps(fsys, dir, ops, n) ==
    IF n = 0 \/ ops = <<>> THEN fsys
    ELSE ApplyOps(WriteFile(fsys, dir, Head(ops).name, Head(ops).content),
                  dir, Tail(ops), n - 1)

\* open(output_<timestamp>.txt, 'w'): stdout, then the stderr section if any
WriteLog(lg, dir, ts, run, err) ==
    {l \in lg : ~(l.dir = dir /\ l.ts = ts)}
    \cup {[dir |-> dir, ts |-> ts, stdout |-> run, stderrSection |-> err]}

(***************************************************************************)
(* The decisions of the code, one operator each.                           *)
(***************************************************************************)
\* a harness that does not look for main.f90
SourceCheckSkipped(exists) == TRUE

\* main: os.path.exists('main.f90') lets the harness go on
SourceCheckPasses(exists) == exists

\* a build step that takes a missing toolchain for a success
CompileReturnIgnoresMissing(outcome) == outcome # "nonzero"

\* compile_fortran_program: True only when gfortran ran and returned 0
CompileReturn(outcome) == outcome = "ok"

\* a run that counts as succeeded as soon as the solver returned 0
RunReturnExitOnly(outcome, faultAt) == outcome = "zero"

\* run_single_test: True when the solver returned 0 and nothing raised
\* before the return at the end of the collection
RunReturn(outcome, faultAt) == outcome = "zero" /\ faultAt = 0

\* run_single_test: what its prints at lines 105, 132 and 136 say about the
\* run, in order (the success line, the failure line with stderr, the line
\* of the except branch)
RunMessages(outcome, faultAt) ==
    IF outcome = "zero"
    THEN <<"run succeeded">> \o (IF faultAt # 0 THEN <<"run error">> ELSE <<>>)
    ELSE IF outcome = "nonzero" THEN <<"run failed">>
    ELSE <<"run error">>

\* a tally that counts every case run
CountsEveryCase(count, ret) == count + 1

\* main: success_count += 1 when run_single_test returned True
NextSuccessCount(count, ret) == IF ret THEN count + 1 ELSE count

\* a loop that stops at the first failed case
LoopStopsOnFailure(ret) == ret

\* main: the for loop goes on to the next case whatever the case returned
LoopGoesOn(ret) == TRUE

\* a loop that walks the registry backwards
CaseAtReversed(k) == TEST_CASES[Len(TEST_CASES) + 1 - k]

\* main: the k-th case of the for loop over TEST_CASES.items()
CaseAt(k) == TEST_CASES[k]

\* exit status of a process whose main returned
ExitOfMain(success, total) == 0

\* a template that lost its last subsection
ReportBodyShort == SubSeq(ReportSubsections, 1, Len(ReportSubsections) - 1)

\* generate_test_report: the subsections written
ReportBody == ReportSubsections

(***************************************************************************)
(* Initial states.                                                         *)
(***************************************************************************)
InitProcess ==
    /\ pc = "Idle"
    /\ failure = "none"
    /\ exitStatus = -1
    /\ buildOutcome = "none"
    /\ toolchainCalls = 0
    /\ idx = 0
    /\ success_count = 0
    /\ total_count = 0
    /\ results = <<>>
    /\ solverCalls = <<>>
    /\ timestamp = -1
    /\ cmd = <<>>
    /\ params = <<>>
    /\ tally = <<>>

InitDisk ==
    /\ dirs = {}
    /\ fs = {}
    /\ logs = {}
    /\ report = <<>>
    /\ invocation = 1
    /\ clock = 0

\* a fresh checkout: no output file yet, main.f90 there or not
Init ==
    /\ InitProcess
    /\ InitDisk
    /\ sourceExists \in BOOLEAN
    /\ runs = 0
    /\ wd = [f \in KnownFiles |-> 0]

(***************************************************************************)
(* main and what it calls.                                                 *)
(***************************************************************************)
\* main, lines 247-250: the check for main.f90
CheckSource ==
    /\ pc = "Idle"
    /\ IF SourceCheckPasses(sourceExists)
       THEN /\ pc' = "Building"
            /\ UNCHANGED <<failure, exitStatus>>
       ELSE /\ pc' = "Failed"
            /\ failure' = "missing-source"
            /\ exitStatus' = 1
    /\ UNCHANGED <<sourceExists, buildOutcome, toolchainCalls, invocation,
                   clock, idx, success_count, total_count, results,
                   solverCalls, runs, timestamp, cmd, params, wd, dirs, fs,
                   logs, report, tally>>

\* main, lines 252-262, with compile_fortran_program: outcome is what the
\* toolchain does (ok, nonzero exit, executable not found)
Compile(outcome) ==
    /\ pc = "Building"
    /\ buildOutcome' = outcome
    /\ toolchainCalls' = toolchainCalls + 1
    /\ IF CompileReturn(outcome)
       THEN /\ dirs' = dirs \cup {ResultsRoot}
            /\ success_count' = 0
            /\ total_count' = Len(TEST_CASES)
            /\ idx' = 1
            /\ pc' = IF Len(TEST_CASES) = 0 THEN "Reporting" ELSE "Running"
            /\ UNCHANGED <<failure, exitStatus>>
       ELSE /\ pc' = "Failed"
            /\ failure' = "build"
            /\ exitStatus' = 1
            /\ UNCHANGED <<dirs, success_count, total_count, idx>>
    /\ UNCHANGED <<sourceExists, invocation, clock, results, solverCalls,
                   runs, timestamp, cmd, params, wd, fs, logs, report, tally>>

\* run_single_test, lines 79-102, up to the blocking subprocess.run: adv is
\* whether the wall clock shows a new second since it was last read
StartTest(adv) ==
    /\ pc = "Running"
    /\ clock' = clock + adv
    /\ timestamp' = clock'
    /\ dirs' = dirs \cup {TestDir(CaseAt(idx).id, CaseAt(idx).name)}
    /\ params' = CaseAt(idx).params
    /\ cmd' = BuildCmd(params')
    /\ solverCalls' = Append(solverCalls, CaseAt(idx).id)
    /\ pc' = "Solving"
    /\ UNCHANGED <<failure, exitStatus, sourceExists, buildOutcome,
                   toolchainCalls, invocation, idx, success_count,
                   total_count, results, runs, wd, fs, logs, report, tally>>

\* run_single_test, lines 102-137, and the loop body of main, lines 265-269.
\* outcome: subprocess.run raised, or the solver exited non-zero or zero;
\* W: the known files the solver wrote; err: stderr was not empty;
\* faultAt: 0, or the copy (the log write after the last copy) that raised
SolverReturns(outcome, W, err, faultAt) ==
    /\ pc = "Solving"
    /\ outcome = "raise" => W = {}
    /\ outcome # "zero" => faultAt = 0
    \* stderr only matters to the log, so it is told apart only where the
    \* log is written
    /\ (outcome # "zero" \/ faultAt # 0) => ~err
    /\ LET case == CaseAt(idx)
           dir == TestDir(case.id, case.name)
           run == runs + 1
           wd1 == [f \in KnownFiles |-> IF f \in W THEN run ELSE wd[f]]
           ops == CopyOps(1, wd1, timestamp, params)
           ret == RunReturn(outcome, faultAt)
       IN  /\ faultAt <= Len(ops) + 1
           /\ wd' = wd1
           /\ runs' = IF outcome = "raise" THEN runs ELSE run
           /\ fs' = IF outcome # "zero" THEN fs
                    ELSE IF faultAt = 0 THEN ApplyOps(fs, dir, ops, Len(ops))
                    ELSE ApplyOps(fs, dir, ops, faultAt - 1)
           /\ logs' = IF outcome = "zero" /\ faultAt = 0
                      THEN WriteLog(logs, dir, timestamp, run, err)
                      ELSE logs
           /\ results' = Append(results,
                    [case |-> case.id, exit |-> outcome, fault |-> faultAt,
                     err |-> err, printed |-> RunMessages(outcome, faultAt),
                     ret |-> ret])
           /\ success_count' = NextSuccessCount(success_count, ret)
           /\ IF LoopGoesOn(ret)
              THEN /\ idx' = idx + 1
                   /\ pc' = IF idx = Len(TEST_CASES) THEN "Reporting"
                            ELSE "Running"
              ELSE /\ idx' = idx
                   /\ pc' = "Reporting"
    /\ UNCHANGED <<failure, exitStatus, sourceExists, buildOutcome,
                   toolchainCalls, invocation, clock, total_count,
                   solverCalls, timestamp, cmd, params, dirs, report, tally>>

\* generate_test_report, lines 140-237, called at line 272
GenerateReport ==
    /\ pc = "Reporting"
    /\ report' = <<[timestamp |-> clock, subsections |-> ReportBody]>>
    /\ pc' = "Summary"
    /\ UNCHANGED <<failure, exitStatus, sourceExists, buildOutcome,
                   toolchainCalls, invocation, clock, idx, success_count,
                   total_count, results, solverCalls, runs, timestamp, cmd,
                   params, wd, dirs, fs, logs, tally>>

\* main, lines 274-289: the summary; main then returns and the process ends
\* (with an empty registry line 281 divides by zero and the process dies)
Summary ==
    /\ pc = "Summary"
    /\ tally' = <<[total |-> total_count, success |-> success_count,
                   failure |-> total_count - success_count]>>
    /\ exitStatus' = IF total_count = 0 THEN 1
                     ELSE ExitOfMain(success_count, total_count)
    /\ pc' = "Done"
    /\ UNCHANGED <<failure, sourceExists, buildOutcome, toolchainCalls,
                   invocation, clock, idx, success_count, total_count,
                   results, solverCalls, runs, timestamp, cmd, params, wd,
                   dirs, fs, logs, report>>

BuildOutcomes == {"ok", "nonzero", "notfound"}
SolverOutcomes == {"raise", "nonzero", "zero"}
FaultPoints == 0..(2 * Len(output_files) + 1)

\* one invocation in any environment
Next ==
    \/ CheckSource
    \/ \E o \in BuildOutcomes : Compile(o)
    \/ \E adv \in {0, 1} : StartTest(adv)
    \/ \E o \in SolverOutcomes, W \in SUBSET Producible, err \in BOOLEAN,
          k \in FaultPoints : SolverReturns(o, W, err, k)
    \/ GenerateReport
    \/ Summary

Spec == Init /\ [][Next]_vars

(***************************************************************************)
(* The argument builder of run_single_test taken alone, over bounded       *)
(* parameter mappings.                                                     *)
(***************************************************************************)
K_n_values == <<"n">> \o SweepMarker

\* keys explored: a scalar, a swept key, and the sweep of a parameter whose
\* own name contains the marker (n_values_values sweeps n_values)
ArgKeys == {K_em, K_phi_values, K_n_values \o SweepMarker}

\* 0.0 and 3.14
ArgValues == {0, 314000}

RECURSIVE SeqsUpTo(_, _)
SeqsUpTo(S, n) ==
    IF n = 0 THEN {<<>>}
    ELSE SeqsUpTo(S, n - 1)
         \cup {Append(q, x) : q \in SeqsUpTo(S, n - 1), x \in S}

\* an entry as the data model has it: a swept key holds a list, any other
\* key one value
ArgEntries ==
    {[key |-> k, vals |-> v] :
        k \in {k \in ArgKeys : EndsWith(k, SweepMarker)},
        v \in SeqsUpTo(ArgValues, MaxSweep)}
    \cup {[key |-> k, vals |-> <<v>>] :
        k \in {k \in ArgKeys : ~EndsWith(k, SweepMarker)}, v \in ArgValues}

\* mappings: insertion-ordered, no key twice
ParamMappings ==
    {m \in SeqsUpTo(ArgEntries, MaxParams) :
        \A i, j \in 1..Len(m) : i # j => m[i].key # m[j].key}

InitArgs ==
    /\ InitDisk
    /\ failure = "none"
    /\ exitStatus = -1
    /\ buildOutcome = "none"
    /\ toolchainCalls = 0
    /\ idx = 0
    /\ success_count = 0
    /\ total_count = 0
    /\ results = <<>>
    /\ solverCalls = <<>>
    /\ timestamp = -1
    /\ cmd = <<>>
    /\ tally = <<>>
    /\ sourceExists = TRUE
    /\ runs = 0
    /\ wd = [f \in KnownFiles |-> 0]
    /\ pc = "Args"
    /\ params \in ParamMappings

\* run_single_test, lines 87-98, on the mapping it was given
BuildArgs ==
    /\ pc = "Args"
    /\ cmd' = BuildCmd(params)
    /\ pc' = "ArgsDone"
    /\ UNCHANGED <<failure, exitStatus, sourceExists, buildOutcome,
                   toolchainCalls, invocation, clock, idx, success_count,
                   total_count, results, solverCalls, runs, timestamp,
                   params, wd, dirs, fs, logs, report, tally>>

NextArgs == BuildArgs

SpecArgs == InitArgs /\ [][NextArgs]_vars

(***************************************************************************)
(* The harness started in a working directory that already holds any       *)
(* subset of the known files (left by an earlier solver execution), in an  *)
(* environment where the toolchain works and no file operation raises.     *)
(***************************************************************************)
InitCollect ==
    /\ InitProcess
    /\ InitDisk
    /\ sourceExists = TRUE
    /\ runs = 1
    /\ wd \in [KnownFiles -> {0, 1}]

NextCollect ==
    \/ CheckSource
    \/ Compile("ok")
    \/ StartTest(1)
    \/ SolverReturns("nonzero", {}, FALSE, 0)
    \/ \E W \in SUBSET Producible : SolverReturns("zero", W, FALSE, 0)
    \/ GenerateReport
    \/ Summary

SpecCollect == InitCollect /\ [][NextCollect]_vars

(***************************************************************************)
(* The harness invoked again on the same checkout, test_results/ kept.     *)
(***************************************************************************)
\* a new process: main starts over, the disk and the clock are as left
Reinvoke ==
    /\ pc \in {"Done", "Failed"}
    /\ invocation < MaxInvocations
    /\ invocation' = invocation + 1
    /\ pc' = "Idle"
    /\ failure' = "none"
    /\ exitStatus' = -1
    /\ buildOutcome' = "none"
    /\ toolchainCalls' = 0
    /\ idx' = 0
    /\ success_count' = 0
    /\ total_count' = 0
    /\ results' = <<>>
    /\ solverCalls' = <<>>
    /\ timestamp' = -1
    /\ cmd' = <<>>
    /\ params' = <<>>
    /\ tally' = <<>>
    /\ UNCHANGED <<sourceExists, clock, runs, wd, dirs, fs, logs, report>>

InitRerun ==
    /\ InitProcess
    /\ InitDisk
    /\ sourceExists = TRUE
    /\ runs = 0
    /\ wd = [f \in KnownFiles |-> 0]

NextRerun ==
    \/ CheckSource
    \/ Compile("ok")
    \/ \E adv \in {0, 1} : StartTest(adv)
    \/ \E W \in SUBSET Producible : SolverReturns("zero", W, FALSE, 0)
    \/ GenerateReport
    \/ Summary
    \/ Reinvoke

SpecRerun == InitRerun /\ [][NextRerun]_vars

(***************************************************************************)
(* The harness with a solver that may never exit.                          *)
(***************************************************************************)
\* run_single_test, line 102: subprocess.run is given no timeout, so with a
\* solver that never exits the call never returns and nothing ends it
SolverHangs ==
    /\ pc = "Solving"
    /\ pc' = "Blocked"
    /\ UNCHANGED <<failure, exitStatus, sourceExists, buildOutcome,
                   toolchainCalls, invocation, clock, idx, success_count,
                   total_count, results, solverCalls, runs, timestamp, cmd,
                   params, wd, dirs, fs, logs, report, tally>>

NextHang == Next \/ SolverHangs

SpecHang == Init /\ [][NextHang]_vars

(***************************************************************************)
(* Properties.                                                             *)
(***************************************************************************)
RegistryIds == [k \in 1..Len(TEST_CASES) |-> TEST_CASES[k].id]

\* the cases of results that returned True
Passed == {k \in 1..Len(results) : results[k].ret}

AllRan == Len(results) = Len(TEST_CASES)

\* C1: the process ends with status 0 exactly when the build succeeded and
\* every test case succeeded; with a failed case it still runs to the end
\* but ends non-zero.
C1_ExitZeroIffAllPassed ==
    exitStatus # -1 =>
        (exitStatus = 0 <=>
            /\ buildOutcome = "ok"
            /\ AllRan
            /\ \A k \in 1..Len(results) : results[k].ret)

\* C2: when compile_fortran_program fails (non-zero exit or toolchain not
\* found) no solver is ever invoked, no test-case directory is created and
\* the process ends non-zero.
C2_BuildFailureIsFatal ==
    buildOutcome \in {"nonzero", "notfound"} =>
        /\ pc = "Failed"
        /\ failure = "build"
        /\ solverCalls = <<>>
        /\ results = <<>>
        /\ dirs \subseteq {ResultsRoot}
        /\ exitStatus = 1

C2_Witness ==
    /\ buildOutcome = "notfound"
    /\ pc = "Failed"
    /\ toolchainCalls = 1

StripSuffix(s, suf) ==
    IF EndsWith(s, suf) THEN SubSeq(s, 1, Len(s) - Len(suf)) ELSE s

ExpectedEntryArgs(e) ==
    IF EndsWith(e.key, SweepMarker)
    THEN [i \in 1..(2 * Len(e.vals)) |->
            IF i % 2 = 1 THEN Flag(StripSuffix(e.key, SweepMarker))
            ELSE Str(e.vals[i \div 2])]
    ELSE <<Flag(e.key), Str(e.vals[1])>>

RECURSIVE ExpectedArgs(_)
ExpectedArgs(m) ==
    IF m = <<>> THEN <<>>
    ELSE ExpectedEntryArgs(Head(m)) \o ExpectedArgs(Tail(m))

C4_ArgsStripTrailingMarker ==
    pc = "ArgsDone" => cmd = <<Executable>> \o ExpectedArgs(params)

\* C5: after a run that exits 0, exactly the known files present in the
\* working directory are copied into the test-case directory, each twice
\* (composite name and canonical name); absent files are skipped without an
\* error and the case still succeeds.
PresentFiles == {f \in KnownFiles : wd[f] # 0}

LastResult == results[Len(results)]

FilesOfCase(case_id) == {e \in fs : e.dir[1] = case_id}

C5_CollectsExactlyPresentFiles ==
    (/\ results # <<>>
     /\ pc # "Solving"
     /\ LastResult.exit = "zero"
     /\ LastResult.fault = 0) =>
        /\ LastResult.ret
        /\ \A f \in KnownFiles :
              LET copies == {e \in FilesOfCase(LastResult.case) :
                                e.name.file = f}
              IN  IF f \in PresentFiles
                  THEN /\ Cardinality(copies) = 2
                       /\ \E e \in copies :
                             e.name.ts = timestamp /\ e.content = wd[f]
                                /\ e.name.ps = ParamStr(params)
                       /\ \E e \in copies :
                             e.name.ts = -1 /\ e.content = wd[f]
                                /\ e.name.ps = <<>>
                  ELSE copies = {}

C5_Witness ==
    /\ results # <<>>
    /\ pc # "Solving"
    /\ LastResult.exit = "zero"
    /\ LastResult.ret
    /\ Cardinality(PresentFiles) = 2
    /\ Cardinality(FilesOfCase(LastResult.case)) = 4

\* C6: across successive invocations that keep test_results/, a composite-
\* named copy once written stays there with its content, and a canonical-
\* named copy changes only to the content collected last for its case.
CompositeCopies == {e \in fs : e.name.ts # -1}

C6_ArchiveCopiesSurvive ==
    [][/\ CompositeCopies \subseteq fs'
       /\ \A e \in fs' :
             (e.name.ts = -1 /\ e \notin fs) =>
                /\ pc = "Solving"
                /\ e.dir[1] = CaseAt(idx).id
                /\ e.content = wd'[e.name.file]]_vars

\* C7: at the summary, total is the number of registry cases, success the
\* number of cases that returned success, failure = total - success and
\* 0 <= success <= total; when only case 2 of 3 fails the tally is 3, 2, 1.
C7_TallyIsConsistent ==
    tally # <<>> =>
        /\ tally[1].total = Len(TEST_CASES)
        /\ tally[1].success = Cardinality(Passed)
        /\ tally[1].failure = tally[1].total - tally[1].success
        /\ 0 <= tally[1].success /\ tally[1].success <= tally[1].total
        /\ Passed = {1, 3} =>
              tally[1] = [total |-> 3, success |-> 2, failure |-> 1]

C7_Witness ==
    /\ tally # <<>>
    /\ AllRan
    /\ Passed = {1, 3}
    /\ tally[1] = [total |-> 3, success |-> 2, failure |-> 1]

C10_MissingSourceIsFatal ==
    ~sourceExists =>
        /\ pc \in {"Idle", "Failed"}
        /\ toolchainCalls = 0
        /\ buildOutcome = "none"
        /\ solverCalls = <<>>
        /\ dirs = {}
        /\ report = <<>>
        /\ pc = "Failed" => failure = "missing-source" /\ exitStatus = 1

C10_Witness ==
    /\ ~sourceExists
    /\ pc = "Failed"
    /\ exitStatus = 1

\* C11: a solver run that exceeds the execution budget is terminated and
\* recorded as a Timeout failure, and the batch goes on: the harness is never
\* left waiting on a solver that does not exit.
C11_HungSolverIsTimedOut ==
    pc = "Blocked" => ENABLED NextHang

\* the number of the solver execution of the k-th finished case (solver
\* executions are counted from 1; a solver that could not start is none)
RunNumber(k) == Cardinality({j \in 1..k : results[j].exit # "raise"})

\* C12: every copy archived in the directory of a test case holds what that
\* case's own solver run wrote; a file left in the working directory by an
\* earlier run is never archived under a later case.
C12_ArchivedByOwnRun ==
    \A e \in fs :
        \E k \in 1..Len(results) :
            /\ results[k].case = e.dir[1]
            /\ results[k].exit = "zero"
            /\ e.content = RunNumber(k)

\* C13 as claimed: a case counts as succeeded exactly when its solver
\* exited with code 0, whatever happens while collecting and logging.
C13_SucceededIffExitZero ==
    \A k \in 1..Len(results) :
        results[k].ret <=> results[k].exit = "zero"

\* C13 as amended: a case counts as succeeded exactly when its solver exited
\* with code 0 and no copy and no log write raised; then its log is there
\* and the case is in the success count.
C13_SucceededIffExitZeroAndCollected ==
    /\ \A k \in 1..Len(results) :
          /\ results[k].ret <=>
                (results[k].exit = "zero" /\ results[k].fault = 0)
          /\ results[k].ret =>
                \E l \in logs :
                   l.dir[1] = results[k].case /\ l.stdout = RunNumber(k)
    /\ success_count =
          Cardinality({k \in 1..Len(results) :
                          results[k].exit = "zero" /\ results[k].fault = 0})

C13_Witness ==
    /\ Len(results) = 2
    /\ results[1].exit = "zero" /\ results[1].fault # 0 /\ ~results[1].ret
    /\ results[2].exit = "zero" /\ results[2].ret
    /\ success_count = 1

\* C14: every run of a test case, the solver exiting 0 or not, leaves in
\* the directory of the case a log with the captured stdout, followed by the
\* stderr section exactly when stderr was not empty.
C14_EveryRunLeavesLog ==
    \A k \in 1..Len(results) :
        results[k].exit \in {"zero", "nonzero"} =>
            \E l \in logs :
                /\ l.dir[1] = results[k].case
                /\ l.stdout = RunNumber(k)
                /\ l.stderrSection = results[k].err

\* C15: when a run exits 0 and none of the known output files exists in the
\* working directory, a warning is printed for that case (and the case is
\* still not failed for it).
C15_WarnsWhenNothingProduced ==
    (/\ results # <<>>
     /\ pc # "Solving"
     /\ LastResult.exit = "zero"
     /\ PresentFiles = {}) =>
        /\ \E i \in 1..Len(LastResult.printed) :
              LastResult.printed[i] = "artifact warning"
        /\ LastResult.fault = 0 => LastResult.ret

====
